---- MODULE Spec2Model ----
(***************************************************************************)
(* TheatreScheduler (scheduler.py): surgical cases are assigned to theatre *)
(* sessions by a mixed-integer model.  The state machine is                *)
(*   start --Construct--> built | ZeroDivisionError --Solve--> solved      *)
(* Construct is TheatreScheduler.__init__ (create_model included), Solve   *)
(* is TheatreScheduler.solve.  The external solver is a nondeterministic   *)
(* choice among the variable assignments that satisfy the constraints      *)
(* create_model builds.                                                    *)
(*                                                                         *)
(* Numbers: minutes and ordinal days are integers; a utilisation is an     *)
(* exact rational <<numerator, denominator>> with denominator > 0.  The    *)
(* value of a pyomo Var is <<v>>, or <<>> while the Var holds None.        *)
(***************************************************************************)
EXTENDS Integers, Sequences, FiniteSets, TLC

VARIABLES
    case_file,      \* rows of cases.csv: [CaseID, Duration, TargetDeadline]
    session_file,   \* rows of sessions.csv: [SessionID, Date, Start, Duration]
    pc,             \* "start", "built", "ZeroDivisionError", "solved"
    model,          \* self.model: sets and parameters of the pyomo model
    values,         \* values of SESSION_ASSIGNED, CASE_START_TIME, UTILISATION
    termination,    \* what the solver ended with (the code never reads it)
    report          \* df_times, cases_assigned, cases_missed of solve

vars == <<case_file, session_file, pc, model, values, termination, report>>

----------------------------------------------------------------------------
(* Bounds of the model *)

\* distance in minutes between two candidate start times
Slot == 90
\* candidate start times per session opening: opening + k * Slot, k \in 0..MaxSlot
MaxSlot == 1
\* longest case list / session list given to generate_disjunctions alone
MaxCases == 3
MaxSessions == 2

----------------------------------------------------------------------------
(* Sequences and rationals *)

Range(seq) == {seq[i] : i \in 1..Len(seq)}

InSeq(x, seq) == \E i \in 1..Len(seq) : seq[i] = x

\* the elements of seq in order of first occurrence (an ordered set)
RECURSIVE Dedup(_)
Dedup(seq) ==
    IF seq = <<>> THEN <<>>
    ELSE LET front == Dedup(SubSeq(seq, 1, Len(seq) - 1))
             last == seq[Len(seq)]
         IN IF InSeq(last, front) THEN front ELSE Append(front, last)

RECURSIVE SumSeq(_)
SumSeq(seq) == IF seq = <<>> THEN 0 ELSE seq[1] + SumSeq(Tail(seq))

RatLE(a, b) == a[1] * b[2] <= b[1] * a[2]
RatEq(a, b) == a[1] * b[2] = b[1] * a[2]
RatAdd(a, b) == <<a[1] * b[2] + b[1] * a[2], a[2] * b[2]>>
RatMul(a, b) == <<a[1] * b[1], a[2] * b[2]>>

None == <<>>
Some(v) == <<v>>

----------------------------------------------------------------------------
(* Reading the two tables *)

\* column `name` of a table
Column(rows, name) == [i \in 1..Len(rows) |-> rows[i][name]]

\* pd.Series(vals, index=keys).to_dict(): the last row of a key wins
ToDict(vals, keys) ==
    [k \in Range(keys) |->
        LET last == CHOOSE i \in 1..Len(keys) :
                        /\ keys[i] = k
                        /\ \A j \in (i + 1)..Len(keys) : keys[j] # k
        IN vals[last]]

IsLeap(y) == (y % 4 = 0) /\ ((y % 100 # 0) \/ (y % 400 = 0))

DaysInMonth == <<31, 28, 31, 30, 31, 30, 31, 31, 30, 31, 30, 31>>

\* date.toordinal() of a date <<day, month, year>> read as %d/%m/%Y
toordinal(date) ==
    LET d == date[1]
        mo == date[2]
        y == date[3]
        y1 == y - 1
        before == SumSeq(SubSeq(DaysInMonth, 1, mo - 1))
                    + (IF mo > 2 /\ IsLeap(y) THEN 1 ELSE 0)
    IN y1 * 365 + (y1 \div 4) - (y1 \div 100) + (y1 \div 400) + before + d

\* pd.to_timedelta("HH:MM:SS").total_seconds() / 60 for <<HH, MM, SS>>
\* (exact for whole minutes, the only times the inputs hold)
total_minutes(t) == (t[1] * 3600 + t[2] * 60 + t[3]) \div 60

generate_case_durations(cases) ==
    ToDict(Column(cases, "Duration"), Column(cases, "CaseID"))

generate_session_durations(sessions) ==
    ToDict(Column(sessions, "Duration"), Column(sessions, "SessionID"))

generate_session_start_times(sessions) ==
    LET Start == Column(sessions, "Start")
    IN ToDict([i \in 1..Len(Start) |-> total_minutes(Start[i])],
              Column(sessions, "SessionID"))

get_ordinal_case_deadlines(cases) ==
    LET TargetDeadline == Column(cases, "TargetDeadline")
    IN ToDict([i \in 1..Len(TargetDeadline) |-> toordinal(TargetDeadline[i])],
              Column(cases, "CaseID"))

get_ordinal_session_dates(sessions) ==
    LET Date == Column(sessions, "Date")
    IN ToDict([i \in 1..Len(Date) |-> toordinal(Date[i])],
              Column(sessions, "SessionID"))

----------------------------------------------------------------------------
(* The disjunction list *)

\* itertools.product(cases, cases, sessions): the last factor runs fastest
Product3(cases, sessions) ==
    LET n == Len(cases)
        s == Len(sessions)
    IN [k \in 1..(n * n * s) |->
            <<cases[((k - 1) \div (n * s)) + 1],
              cases[(((k - 1) \div s) % n) + 1],
              sessions[((k - 1) % s) + 1]>>]

RECURSIVE DisjunctionLoopMirrorOff(_, _, _)
DisjunctionLoopMirrorOff(triples, k, disjunctions) ==
    IF k > Len(triples) THEN disjunctions
    ELSE LET case1 == triples[k][1]
             case2 == triples[k][2]
             session == triples[k][3]
         IN DisjunctionLoopMirrorOff(triples, k + 1,
                IF /\ case1 # case2
                   /\ ~InSeq(<<case1, case2, session>>, disjunctions)
                THEN Append(disjunctions, <<case1, case2, session>>)
                ELSE disjunctions)

\* the for loop of _generate_disjunctions from its k-th triple on
RECURSIVE DisjunctionLoop(_, _, _)
DisjunctionLoop(triples, k, disjunctions) ==
    IF k > Len(triples) THEN disjunctions
    ELSE LET case1 == triples[k][1]
             case2 == triples[k][2]
             session == triples[k][3]
         IN DisjunctionLoop(triples, k + 1,
                IF /\ case1 # case2
                   /\ ~InSeq(<<case2, case1, session>>, disjunctions)
                THEN Append(disjunctions, <<case1, case2, session>>)
                ELSE disjunctions)

generate_disjunctions(cases, sessions) ==
    DisjunctionLoop(Product3(Column(cases, "CaseID"), Column(sessions, "SessionID")),
                    1, <<>>)

----------------------------------------------------------------------------
(* Constants of create_model *)

\* minutes in a day, upper bound of a start time
ub == 1440

max_util_full == <<100, 100>>

\* max_util = 0.85
max_util == <<85, 100>>

M_day == ub

\* model.M = 1e3 * ub
M == 1000 * ub

----------------------------------------------------------------------------
(* Sets and parameters *)

NoModel ==
    [CASES |-> <<>>, SESSIONS |-> <<>>, TASKS |-> <<>>,
     CASE_DURATION |-> <<>>, SESSION_DURATION |-> <<>>,
     SESSION_START_TIME |-> <<>>, CASE_DEADLINES |-> <<>>,
     SESSION_DATES |-> <<>>, DISJUNCTIONS |-> <<>>]

\* model.CASES * model.SESSIONS in the order pyomo iterates it
TaskProduct(cases, sessions) ==
    [k \in 1..(Len(cases) * Len(sessions)) |->
        <<cases[((k - 1) \div Len(sessions)) + 1],
          sessions[((k - 1) % Len(sessions)) + 1]>>]

\* the sets and parameters create_model declares (lines 69-86)
Parameters(cases, sessions) ==
    LET CASES == Dedup(Column(cases, "CaseID"))
        SESSIONS == Dedup(Column(sessions, "SessionID"))
    IN [CASES |-> CASES,
        SESSIONS |-> SESSIONS,
        TASKS |-> TaskProduct(CASES, SESSIONS),
        CASE_DURATION |-> generate_case_durations(cases),
        SESSION_DURATION |-> generate_session_durations(sessions),
        SESSION_START_TIME |-> generate_session_start_times(sessions),
        CASE_DEADLINES |-> get_ordinal_case_deadlines(cases),
        SESSION_DATES |-> get_ordinal_session_dates(sessions),
        DISJUNCTIONS |-> Dedup(generate_disjunctions(cases, sessions))]

----------------------------------------------------------------------------
(* Constraints.  m is the model, x = [assigned, start, util] a value for   *)
(* every variable: assigned[task] \in {0,1}, start[task] in minutes,       *)
(* util[session] a rational.                                               *)

\* SESSION_ASSIGNED is Binary; CASE_START_TIME has bounds (0, ub);
\* UTILISATION has bounds (0, max_util).  PositiveReals adds the lower
\* bound 0 once more: the solver is given closed bounds.
VarBounds(m, x) ==
    /\ \A t \in Range(m.TASKS) :
        /\ x.assigned[t] \in {0, 1}
        /\ 0 <= x.start[t]
        /\ x.start[t] <= ub
    /\ \A s \in Range(m.SESSIONS) :
        /\ RatLE(<<0, 1>>, x.util[s])
        /\ RatLE(x.util[s], max_util)

\* Constraint 1
case_start_time(m, x, case, session) ==
    x.start[<<case, session>>] >=
        m.SESSION_START_TIME[session] - ((1 - x.assigned[<<case, session>>]) * M)

case_end_time_swapped(m, x, case, session) ==
    x.start[<<case, session>>] + m.CASE_DURATION[case] <=
        m.SESSION_START_TIME[session] + m.SESSION_DURATION[session]
            + (x.assigned[<<case, session>>] * M)

\* Constraint 2
case_end_time(m, x, case, session) ==
    x.start[<<case, session>>] + m.CASE_DURATION[case] <=
        m.SESSION_START_TIME[session] + m.SESSION_DURATION[session]
            + ((1 - x.assigned[<<case, session>>]) * M)

session_assignment_two(m, x, case) ==
    SumSeq([i \in 1..Len(m.SESSIONS) |-> x.assigned[<<case, m.SESSIONS[i]>>]]) <= 2

\* Constraint 3
session_assignment(m, x, case) ==
    SumSeq([i \in 1..Len(m.SESSIONS) |-> x.assigned[<<case, m.SESSIONS[i]>>]]) <= 1

set_deadline_condition_swapped(m, x, case, session) ==
    m.SESSION_DATES[session] <=
        m.CASE_DEADLINES[case] + (x.assigned[<<case, session>>] * M)

\* Constraint 4
set_deadline_condition(m, x, case, session) ==
    m.SESSION_DATES[session] <=
        m.CASE_DEADLINES[case] + ((1 - x.assigned[<<case, session>>]) * M)

no_case_overlap_one_flag(m, x, case1, case2, session) ==
    << x.start[<<case1, session>>] + m.CASE_DURATION[case1] <=
          x.start[<<case2, session>>]
            + ((2 - x.assigned[<<case1, session>>]) * M),
       x.start[<<case2, session>>] + m.CASE_DURATION[case2] <=
          x.start[<<case1, session>>]
            + ((2 - x.assigned[<<case1, session>>]) * M) >>

\* Constraint 5: the two disjuncts the rule returns
no_case_overlap(m, x, case1, case2, session) ==
    << x.start[<<case1, session>>] + m.CASE_DURATION[case1] <=
          x.start[<<case2, session>>]
            + ((2 - x.assigned[<<case1, session>>]
                  - x.assigned[<<case2, session>>]) * M),
       x.start[<<case2, session>>] + m.CASE_DURATION[case2] <=
          x.start[<<case1, session>>]
            + ((2 - x.assigned[<<case1, session>>]
                  - x.assigned[<<case2, session>>]) * M) >>

\* pyogdp.Disjunction + gdp.bigm: exactly one disjunct is selected and must
\* hold; the other is relaxed by the bound TransformationFactory derives
\* from the variable bounds, which no value within the bounds violates
DISJUNCTIONS_RULE(m, x, d) ==
    \E selected \in 1..2 : no_case_overlap(m, x, d[1], d[2], d[3])[selected]

\* sum of assigned * CASE_DURATION over model.CASES
AssignedMinutes(m, x, session) ==
    SumSeq([i \in 1..Len(m.CASES) |->
              x.assigned[<<m.CASES[i], session>>] * m.CASE_DURATION[m.CASES[i]]])

\* Constraint 6
theatre_util(m, x, session) ==
    RatEq(x.util[session],
          RatMul(<<1, m.SESSION_DURATION[session]>>,
                 <<AssignedMinutes(m, x, session), 1>>))

Feasible(m, x) ==
    /\ VarBounds(m, x)
    /\ \A t \in Range(m.TASKS) :
        /\ case_start_time(m, x, t[1], t[2])
        /\ case_end_time(m, x, t[1], t[2])
        /\ set_deadline_condition(m, x, t[1], t[2])
    /\ \A c \in Range(m.CASES) : session_assignment(m, x, c)
    /\ \A d \in Range(m.DISJUNCTIONS) : DISJUNCTIONS_RULE(m, x, d)
    /\ \A s \in Range(m.SESSIONS) : theatre_util(m, x, s)

objective_function_negated(m, x) ==
    LET u == [i \in 1..Len(m.SESSIONS) |-> x.util[m.SESSIONS[i]]]
        sum[i \in 0..Len(u)] == IF i = 0 THEN <<0, 1>> ELSE RatAdd(sum[i - 1], u[i])
    IN <<0 - sum[Len(u)][1], sum[Len(u)][2]>>

\* pe.summation(model.UTILISATION)
objective_function(m, x) ==
    LET u == [i \in 1..Len(m.SESSIONS) |-> x.util[m.SESSIONS[i]]]
        sum[i \in 0..Len(u)] == IF i = 0 THEN <<0, 1>> ELSE RatAdd(sum[i - 1], u[i])
    IN sum[Len(u)]

----------------------------------------------------------------------------
(* The solver (glpk behind pe.SolverFactory), as seen from solve *)

\* times of day at which the sessions of the inputs open
SessionStarts == {<<8, 0, 0>>}

\* the start times the solver chooses from: both bounds of CASE_START_TIME
\* and a grid of slots from every session opening
StartValues ==
    ({0, ub} \cup {total_minutes(t) + k * Slot : t \in SessionStarts, k \in 0..MaxSlot})
        \cap (0..ub)

\* the values UTILISATION[session] can take: constraint 6 makes it a multiple
\* of 1 / SESSION_DURATION[session]
UtilRange(m, session) ==
    {<<n, m.SESSION_DURATION[session]>> : n \in 0..m.SESSION_DURATION[session]}

UtilChoices(m, a) ==
    LET S == Range(m.SESSIONS)
        ok(s) == {q \in UtilRange(m, s) :
                    theatre_util(m, [assigned |-> a, util |-> [t \in {s} |-> q]], s)}
    IN {u \in [S -> UNION {ok(s) : s \in S}] : \A s \in S : u[s] \in ok(s)}

\* every value of the variables that satisfies the constraints
Solutions(m) ==
    LET T == Range(m.TASKS)
        A == {a \in [T -> {0, 1}] :
                /\ \A c \in Range(m.CASES) : session_assignment(m, [assigned |-> a], c)
                /\ \A t \in T : set_deadline_condition(m, [assigned |-> a], t[1], t[2])}
    IN UNION {UNION {{x \in {[assigned |-> a, start |-> st, util |-> u] :
                                st \in [T -> StartValues]} : Feasible(m, x)}
                     : u \in UtilChoices(m, a)}
              : a \in A}

\* sense=pe.maximize: the solutions whose objective no other solution beats
\* (the objective reads UTILISATION alone)
Optimal(m, S) ==
    LET U == {x.util : x \in S}
        best == {u \in U : \A v \in U :
                    RatLE(objective_function(m, [util |-> v]),
                          objective_function(m, [util |-> u]))}
    IN {x \in S : x.util \in best}

\* the Vars before any solution is loaded
Unloaded(m) ==
    [SESSION_ASSIGNED |-> [t \in Range(m.TASKS) |-> None],
     CASE_START_TIME |-> [t \in Range(m.TASKS) |-> None],
     UTILISATION |-> [s \in Range(m.SESSIONS) |-> None]]

\* the Vars after the solver's solution x is loaded
Loaded(m, x) ==
    [SESSION_ASSIGNED |-> [t \in Range(m.TASKS) |-> Some(x.assigned[t])],
     CASE_START_TIME |-> [t \in Range(m.TASKS) |-> Some(x.start[t])],
     UTILISATION |-> [s \in Range(m.SESSIONS) |-> Some(x.util[s])]]

\* solver.solve(self.model): proven optimum; time limit (tmlim) reached with
\* the best incumbent or with none; no solution exists
SolverOutcomes(m) ==
    LET S == Solutions(m)
    IN  {[status |-> "optimal", values |-> Loaded(m, x)] : x \in Optimal(m, S)}
        \cup {[status |-> "timeout", values |-> Loaded(m, x)] : x \in S}
        \cup {[status |-> "timeout", values |-> Unloaded(m)]}
        \cup (IF S = {} THEN {[status |-> "infeasible", values |-> Unloaded(m)]}
              ELSE {})

----------------------------------------------------------------------------
(* The report of solve *)

NoReport == [df_times |-> <<>>, cases_assigned |-> <<>>, cases_missed |-> {}]

\* the loop over model.SESSION_ASSIGNED that appends to cases_assigned
RECURSIVE CasesAssigned(_, _)
CasesAssigned(tasks, v) ==
    IF tasks = <<>> THEN <<>>
    ELSE LET front == CasesAssigned(SubSeq(tasks, 1, Len(tasks) - 1), v)
             task == tasks[Len(tasks)]
         IN IF v.SESSION_ASSIGNED[task] = Some(1)
            THEN Append(front, task[1]) ELSE front

ReportOf(m, v) ==
    LET cases_assigned == CasesAssigned(m.TASKS, v)
    IN [df_times |->
            [k \in 1..Len(m.TASKS) |->
                LET case == m.TASKS[k][1]
                    session == m.TASKS[k][2]
                IN [Case |-> case,
                    Session |-> session,
                    SessionDate |-> m.SESSION_DATES[session],
                    CaseDeadline |-> m.CASE_DEADLINES[case],
                    DaysBeforeDeadline |->
                        m.CASE_DEADLINES[case] - m.SESSION_DATES[session],
                    Start |-> v.CASE_START_TIME[m.TASKS[k]],
                    Assignment |-> v.SESSION_ASSIGNED[m.TASKS[k]]]],
        cases_assigned |-> cases_assigned,
        cases_missed |-> Range(m.CASES) \ Range(cases_assigned)]

----------------------------------------------------------------------------
(* Operations *)

\* TheatreScheduler.__init__: read both tables, create_model.  The rule of
\* constraint 6 divides by SESSION_DURATION[session] while the model is built.
Construct ==
    /\ pc = "start"
    /\ LET m == Parameters(case_file, session_file)
       IN IF \E s \in Range(m.SESSIONS) : m.SESSION_DURATION[s] = 0
          THEN /\ pc' = "ZeroDivisionError"
               /\ model' = NoModel
               /\ values' = Unloaded(NoModel)
          ELSE /\ pc' = "built"
               /\ model' = m
               /\ values' = Unloaded(m)
    /\ UNCHANGED <<case_file, session_file, termination, report>>

\* TheatreScheduler.solve
Solve ==
    /\ pc = "built"
    /\ \E o \in SolverOutcomes(model) :
        /\ termination' = o.status
        /\ values' = o.values
        /\ report' = ReportOf(model, o.values)
    /\ pc' = "solved"
    /\ UNCHANGED <<case_file, session_file, model>>

Next == Construct \/ Solve

----------------------------------------------------------------------------
(* Inputs *)

CaseIDs == <<"A", "B">>
CaseDurations == {60, 90}
Deadlines == {<<5, 1, 2024>>, <<10, 1, 2024>>}

SessionIDs == <<"S1", "S2">>
SessionDates == {<<3, 1, 2024>>, <<6, 1, 2024>>}
SessionDurations == {0, 80, 200}

\* case tables whose i-th row has the i-th identifier of ids
CaseFiles(ids, durations, deadlines) ==
    UNION {{[i \in 1..n |-> [CaseID |-> ids[i], Duration |-> d[i],
                             TargetDeadline |-> t[i]]] :
                d \in [1..n -> durations], t \in [1..n -> deadlines]}
           : n \in 1..Len(ids)}

SessionFiles(ids, dates, starts, durations) ==
    UNION {{[i \in 1..n |-> [SessionID |-> ids[i], Date |-> dt[i],
                             Start |-> st[i], Duration |-> d[i]]] :
                dt \in [1..n -> dates], st \in [1..n -> starts],
                d \in [1..n -> durations]}
           : n \in 1..Len(ids)}

Fresh ==
    /\ pc = "start"
    /\ model = NoModel
    /\ values = Unloaded(NoModel)
    /\ termination = "none"
    /\ report = NoReport

Init ==
    /\ case_file \in CaseFiles(CaseIDs, CaseDurations, Deadlines)
    /\ session_file \in SessionFiles(SessionIDs, SessionDates, SessionStarts,
                                     SessionDurations)
    /\ Fresh

Spec == Init /\ [][Next]_vars

\* Inputs of magnitudes near the big M: one session, cases up to and beyond M
BigCaseDurations == {60, 1000 * ub - ub - 1, 2000 * ub}

InitBigM ==
    /\ case_file \in CaseFiles(CaseIDs, BigCaseDurations, {<<5, 1, 2024>>})
    /\ session_file \in SessionFiles(<<"S1">>, SessionDates, SessionStarts, {200})
    /\ Fresh

SpecBigM == InitBigM /\ [][Next]_vars

\* Identifier lists for the disjunction list alone: any list over the pools,
\* repeated identifiers included
CasePool == {"A", "B", "C", "D"}
SessionPool == {"S1", "S2"}

IdLists(pool, max) == UNION {[1..n -> pool] : n \in 0..max}

InitDisj ==
    /\ \E ids \in IdLists(CasePool, MaxCases) :
        case_file = [i \in 1..Len(ids) |->
                        [CaseID |-> ids[i], Duration |-> 60,
                         TargetDeadline |-> <<10, 1, 2024>>]]
    /\ \E ids \in IdLists(SessionPool, MaxSessions) :
        session_file = [i \in 1..Len(ids) |->
                        [SessionID |-> ids[i], Date |-> <<3, 1, 2024>>,
                         Start |-> <<8, 0, 0>>, Duration |-> 200]]
    /\ Fresh

SpecDisj == InitDisj /\ [][Construct]_vars

----------------------------------------------------------------------------
(* Properties *)

\* solve has run and the solver's solution is loaded into the Vars
Solved ==
    /\ pc = "solved"
    /\ \E t \in DOMAIN values.SESSION_ASSIGNED : values.SESSION_ASSIGNED[t] # None

Assigned(case, session) == values.SESSION_ASSIGNED[<<case, session>>] = Some(1)
StartOf(case, session) == values.CASE_START_TIME[<<case, session>>][1]
UtilOf(session) == values.UTILISATION[session][1]

Cases == Range(model.CASES)
Sessions == Range(model.SESSIONS)

NoOverlap(c1, c2, s) ==
    \/ StartOf(c1, s) + model.CASE_DURATION[c1] <= StartOf(c2, s)
    \/ StartOf(c2, s) + model.CASE_DURATION[c2] <= StartOf(c1, s)

\* C1 - no double-booking: whenever two distinct cases are both assigned to
\* a session, one of them ends at or before the start of the other, in
\* whichever order the pair was kept in the disjunction list.
C1_NoDoubleBooking ==
    Solved =>
        \A s \in Sessions : \A c1 \in Cases : \A c2 \in Cases :
            (c1 # c2 /\ Assigned(c1, s) /\ Assigned(c2, s)) => NoOverlap(c1, c2, s)

\* two cases share a session, and the second case of the kept triple runs first
C1_Witness ==
    /\ Solved
    /\ \E d \in Range(model.DISJUNCTIONS) :
        /\ Assigned(d[1], d[3])
        /\ Assigned(d[2], d[3])
        /\ StartOf(d[2], d[3]) + model.CASE_DURATION[d[2]] <= StartOf(d[1], d[3])

\* C2 - deadline compliance: an assigned task's session is dated no later
\* than the case's deadline, its reported "Days before deadline" is not
\* negative, and a case whose deadline precedes every session's date is
\* assigned to no session (it is reported missed).
C2_DeadlineCompliance ==
    Solved =>
        /\ \A c \in Cases : \A s \in Sessions :
            Assigned(c, s) => model.SESSION_DATES[s] <= model.CASE_DEADLINES[c]
        /\ \A k \in 1..Len(report.df_times) :
            report.df_times[k].Assignment = Some(1)
                => report.df_times[k].DaysBeforeDeadline >= 0
        /\ \A c \in Cases :
            (\A s \in Sessions : model.CASE_DEADLINES[c] < model.SESSION_DATES[s])
                => /\ \A s \in Sessions : ~Assigned(c, s)
                   /\ c \in report.cases_missed

\* one case is assigned while another one's deadline precedes every session
C2_Witness ==
    /\ Solved
    /\ \E c \in Cases : \E s \in Sessions : Assigned(c, s)
    /\ \E c \in Cases :
        \A s \in Sessions : model.CASE_DEADLINES[c] < model.SESSION_DATES[s]

\* C3 - containment: an assigned task starts no earlier than its session and
\* ends no later than the session does; a case longer than a session is
\* never assigned to it.
C3_Containment ==
    Solved =>
        \A c \in Cases : \A s \in Sessions :
            /\ Assigned(c, s) =>
                /\ StartOf(c, s) >= model.SESSION_START_TIME[s]
                /\ StartOf(c, s) + model.CASE_DURATION[c] <=
                      model.SESSION_START_TIME[s] + model.SESSION_DURATION[s]
            /\ model.CASE_DURATION[c] > model.SESSION_DURATION[s] => ~Assigned(c, s)

\* a case is assigned to a session that another case is too long for
C3_Witness ==
    /\ Solved
    /\ \E c \in Cases : \E s \in Sessions :
        /\ Assigned(c, s)
        /\ \E c2 \in Cases : model.CASE_DURATION[c2] > model.SESSION_DURATION[s]

\* minutes of the cases the loaded solution assigns to session
MinutesIn(session) ==
    SumSeq([i \in 1..Len(model.CASES) |->
              IF Assigned(model.CASES[i], session)
              THEN model.CASE_DURATION[model.CASES[i]] ELSE 0])

\* C4 - utilisation: every session's utilisation lies in [0, 0.85],
\* utilisation * session duration is the total duration of the cases
\* assigned to the session, and that total is at most 85% of the session's
\* duration.
C4_Utilisation ==
    Solved =>
        \A s \in Sessions :
            /\ RatLE(<<0, 1>>, UtilOf(s))
            /\ RatLE(UtilOf(s), <<85, 100>>)
            /\ RatEq(RatMul(UtilOf(s), <<model.SESSION_DURATION[s], 1>>),
                     <<MinutesIn(s), 1>>)
            /\ 100 * MinutesIn(s) <= 85 * model.SESSION_DURATION[s]

\* a session is in use whose cases would all fit by time but not within 85%
C4_Witness ==
    /\ Solved
    /\ \E s \in Sessions :
        LET all == SumSeq([i \in 1..Len(model.CASES) |->
                              model.CASE_DURATION[model.CASES[i]]])
        IN /\ MinutesIn(s) > 0
           /\ all <= model.SESSION_DURATION[s]
           /\ 100 * all > 85 * model.SESSION_DURATION[s]

\* C5 - single assignment: every case is assigned to at most one session,
\* and cases_assigned lists every case at most once.
C5_SingleAssignment ==
    Solved =>
        \A c \in Cases :
            /\ Cardinality({s \in Sessions : Assigned(c, s)}) <= 1
            /\ Cardinality({i \in 1..Len(report.cases_assigned) :
                                report.cases_assigned[i] = c}) <= 1

\* a case sits in one of two sessions that would both take it
C5_Witness ==
    /\ Solved
    /\ \E c \in Cases : \E s1 \in Sessions : \E s2 \in Sessions :
        /\ s1 # s2
        /\ Assigned(c, s2)
        /\ model.SESSION_DATES[s1] <= model.CASE_DEADLINES[c]
        /\ 100 * model.CASE_DURATION[c] <= 85 * model.SESSION_DURATION[s1]

Distinct(seq) == \A i \in 1..Len(seq) : \A j \in 1..Len(seq) : seq[i] = seq[j] => i = j

CaseIdList == Column(case_file, "CaseID")
SessionIdList == Column(session_file, "SessionID")

\* C6 - disjunction completeness: for n cases and s sessions with pairwise
\* distinct identifiers the list has C(n,2) * s triples, each of two
\* different cases, every unordered pair of cases occurs exactly once per
\* session, and no triple occurs together with its mirror.
C6_DisjunctionCompleteness ==
    (pc = "built" /\ Distinct(CaseIdList) /\ Distinct(SessionIdList)) =>
        LET D == generate_disjunctions(case_file, session_file)
            n == Len(case_file)
            s == Len(session_file)
        IN /\ model.DISJUNCTIONS = D
           /\ Len(D) = ((n * (n - 1)) \div 2) * s
           /\ \A i \in 1..Len(D) : D[i][1] # D[i][2]
           /\ \A c1 \in Range(CaseIdList) : \A c2 \in Range(CaseIdList) :
                \A se \in Range(SessionIdList) :
                    c1 # c2 =>
                        Cardinality({i \in 1..Len(D) :
                            /\ D[i][3] = se
                            /\ {D[i][1], D[i][2]} = {c1, c2}}) = 1
           /\ \A i \in 1..Len(D) : ~InSeq(<<D[i][2], D[i][1], D[i][3]>>, D)

\* the list of three distinct cases and two distinct sessions was built
C6_Witness ==
    /\ pc = "built"
    /\ Distinct(CaseIdList) /\ Len(case_file) = 3
    /\ Distinct(SessionIdList) /\ Len(session_file) = 2
    /\ Len(model.DISJUNCTIONS) = 6

\* a table the specification's input validation refuses
InvalidInput ==
    \/ \E i \in 1..Len(case_file) : case_file[i].Duration <= 0
    \/ \E i \in 1..Len(session_file) : session_file[i].Duration <= 0
    \/ ~Distinct(CaseIdList)
    \/ ~Distinct(SessionIdList)

\* C7 - input validation: an input with a zero session duration (or another
\* non-positive duration, or a repeated identifier) is rejected before the
\* model is constructed: there is no division fault and no model.
C7_ValidatedBeforeConstruction ==
    InvalidInput => (pc \in {"start", "rejected"} /\ model = NoModel)

\* C8 - solver outcomes are report outcomes: the report of solve determines
\* how the solver ended; no other outcome of the solver on the same model
\* yields the same report.
C8_OutcomeReported ==
    pc = "solved" =>
        \A o \in SolverOutcomes(model) :
            o.status # termination => ReportOf(model, o.values) # report

\* the two cases and the one session of the scenario, the session lasting
\* `duration` minutes (day 3, 5, 10 are 3, 5, 10 January 2024)
Scenario(duration) ==
    /\ case_file =
        << [CaseID |-> "A", Duration |-> 60, TargetDeadline |-> <<10, 1, 2024>>],
           [CaseID |-> "B", Duration |-> 90, TargetDeadline |-> <<5, 1, 2024>>] >>
    /\ session_file =
        << [SessionID |-> "S1", Date |-> <<3, 1, 2024>>, Start |-> <<8, 0, 0>>,
            Duration |-> duration] >>

\* C9 - scenario: every optimal solution of the 200-minute scenario assigns
\* A and B without overlap at utilisation 0.75; every optimal solution of
\* the 80-minute scenario assigns A and misses B.
C9_ScenarioOptimum ==
    (pc = "solved" /\ termination = "optimal") =>
        /\ Scenario(200) =>
            /\ Assigned("A", "S1") /\ Assigned("B", "S1")
            /\ NoOverlap("A", "B", "S1")
            /\ RatEq(UtilOf("S1"), <<75, 100>>)
            /\ report.cases_missed = {}
        /\ Scenario(80) =>
            /\ Assigned("A", "S1") /\ ~Assigned("B", "S1")
            /\ report.cases_assigned = <<"A">>
            /\ report.cases_missed = {"B"}

\* the solver proved an optimum of the 200-minute scenario
C9_Witness ==
    /\ pc = "solved" /\ termination = "optimal"
    /\ Scenario(200)
    /\ report.cases_assigned = <<"A", "B">>

\* the solver proved an optimum of the 80-minute scenario
C9_Witness80 ==
    /\ pc = "solved" /\ termination = "optimal"
    /\ Scenario(80)
    /\ report.cases_assigned = <<"A">>

\* 1,440,000 - 1440: what the data must stay below
C10_Limit == 1000 * 1440 - 1440

\* durations and start times are minute counts below the limit, and so is
\* every date difference
Dominated(m) ==
    /\ \A c \in Range(m.CASES) : m.CASE_DURATION[c] \in 0..(C10_Limit - 1)
    /\ \A s \in Range(m.SESSIONS) :
        /\ m.SESSION_START_TIME[s] \in 0..(C10_Limit - 1)
        /\ m.SESSION_DURATION[s] \in 0..(C10_Limit - 1)
    /\ \A c \in Range(m.CASES) : \A s \in Range(m.SESSIONS) :
        m.SESSION_DATES[s] - m.CASE_DEADLINES[c] < C10_Limit

\* the loaded solution with the start of `task` moved to `start`
Moved(task, start) ==
    [assigned |-> [t \in Range(model.TASKS) |-> values.SESSION_ASSIGNED[t][1]],
     start |-> [t \in Range(model.TASKS) |->
                    IF t = task THEN start ELSE values.CASE_START_TIME[t][1]],
     util |-> [s \in Range(model.SESSIONS) |-> values.UTILISATION[s][1]]]

\* C10 - a disabled big-M constraint never binds: for data below
\* 1,440,000 - 1440, (i) constraints 1, 2 and 4 of an unassigned task hold
\* for every start in [0, 1440]; (ii) both inequalities of a disjunction
\* with an unassigned case hold for every pair of starts; so the
\* all-unassigned assignment satisfies every constraint, and moving the start
\* of an unassigned task keeps a solution a solution.
C10_BigMNeverBinding ==
    /\ (pc = "built" /\ Dominated(model)) =>
        /\ \A t \in Range(model.TASKS) : \A st \in StartValues :
            LET x == [assigned |-> [u \in {t} |-> 0], start |-> [u \in {t} |-> st]]
            IN /\ case_start_time(model, x, t[1], t[2])
               /\ case_end_time(model, x, t[1], t[2])
               /\ set_deadline_condition(model, x, t[1], t[2])
        /\ \A d \in Range(model.DISJUNCTIONS) :
            \A a \in {<<0, 0>>, <<0, 1>>, <<1, 0>>} :
            \A s1 \in StartValues : \A s2 \in StartValues :
                LET t1 == <<d[1], d[3]>>
                    t2 == <<d[2], d[3]>>
                    x == [assigned |-> [u \in {t1, t2} |-> IF u = t1 THEN a[1] ELSE a[2]],
                          start |-> [u \in {t1, t2} |-> IF u = t1 THEN s1 ELSE s2]]
                IN /\ no_case_overlap(model, x, d[1], d[2], d[3])[1]
                   /\ no_case_overlap(model, x, d[1], d[2], d[3])[2]
        /\ \A st \in [Range(model.TASKS) -> StartValues] :
            Feasible(model,
                     [assigned |-> [t \in Range(model.TASKS) |-> 0],
                      start |-> st,
                      util |-> [s \in Range(model.SESSIONS) |-> <<0, 1>>]])
    /\ (Solved /\ Dominated(model)) =>
        \A t \in Range(model.TASKS) : \A st \in StartValues :
            values.SESSION_ASSIGNED[t] = Some(0) => Feasible(model, Moved(t, st))

\* a model of two cases, one of them 1,438,559 minutes long, was built
C10_Witness ==
    /\ pc = "built" /\ Dominated(model)
    /\ Len(model.DISJUNCTIONS) > 0
    /\ \E c \in Range(model.CASES) : model.CASE_DURATION[c] = C10_Limit - 1

====
